---- MODULE Spec2Model ----
(***************************************************************************)
(* State-machine model of the PD estimator's marker editing and            *)
(* auto-suggest reconciliation: App (src/src/types.ts, from line 79) and   *)
(* AnnotationCanvas (src/unnamed/part_002, from line 91).                  *)
(*                                                                         *)
(* React scheduling, as far as the handlers depend on it:                  *)
(*  - the state updates of one handler are committed together with it;    *)
(*  - the passive effects (useEffect) of a commit made by a discrete       *)
(*    event (click, pointerdown, pointerup) run with that commit;          *)
(*  - the passive effects of any other commit (pointermove, a promise      *)
(*    continuation) are deferred: they run as a step of their own, or at   *)
(*    the latest before the next render, i.e. after the next handler has   *)
(*    already read the refs.                                               *)
(* Coordinates are integers; all enumerated inputs divide exactly.         *)
(* Hit-test distances are compared by their squares (order preserving).    *)
(* The measurement (src/src/utils/measurement.ts) is computed in exact     *)
(* fractions << numerator, denominator >> on whole-pixel distances.        *)
(*                                                                         *)
(* Specifications: Spec (capture, detection, marker editing), SpecApp (the *)
(* whole flow with the saved readings), SpecMeasure (calculatePd over      *)
(* enumerated marker sets), SpecRoundTrip (display and pointer transforms).*)
(***************************************************************************)
EXTENDS Integers, Sequences, FiniteSets, TLC

\* ---------------------------------------------------------------- bounds
\* detection calls started plus pointer-moves that wrote the store
MaxOps == 2

\* calls of startCamera
MaxStarts == 2

\* ------------------------------------------------------------- constants
PICK_RADIUS == 26
MIN_SCALE_DEN == 10000

MarkerKey == {"leftPupil", "rightPupil", "leftCard", "rightCard"}

\* key enumeration order of a MarkerMap as createDefaultMarkers builds it
KeyOrder == << "leftPupil", "rightPupil", "leftCard", "rightCard" >>

NoMarkers == <<>>
NoPhoto == [id |-> 0, width |-> 0, height |-> 0]
NoSize == [width |-> 0, height |-> 0]
NoKey == "none"
NoMeasurement == [absent |-> TRUE]
NoError == ""
NoReading == [sourceCapturedAt |-> 0]

\* ------------------------------------------- JS objects with key order
Entry(key, point) == [key |-> key, pt |-> point]

HasKey(obj, key) == \E i \in 1..Len(obj) : obj[i].key = key

Get(obj, key) == obj[CHOOSE i \in 1..Len(obj) : obj[i].key = key].pt

ObjectKeys(obj) == [i \in 1..Len(obj) |-> obj[i].key]

AssignAlone(obj, key, point) == << Entry(key, point) >>

\* obj[key] = point: an existing key keeps its place, a new key is appended
Assign(obj, key, point) ==
  IF HasKey(obj, key)
    THEN [i \in 1..Len(obj) |-> IF obj[i].key = key THEN Entry(key, point) ELSE obj[i]]
    ELSE Append(obj, Entry(key, point))

\* ------------------------------------------------------------- geometry
Min(a, b) == IF a < b THEN a ELSE b
Max(a, b) == IF a > b THEN a ELSE b

distanceSq(a, b) == (a[1] - b[1]) * (a[1] - b[1]) + (a[2] - b[2]) * (a[2] - b[2])

clampLoose(value, min, max) == Min(max + 1, Max(min - 1, value))

clamp(value, min, max) == Min(max, Max(min, value))

createDefaultMarkers(width, height) ==
  << Entry("leftPupil", <<(width * 4) \div 10, (height * 48) \div 100>>),
     Entry("rightPupil", <<(width * 6) \div 10, (height * 48) \div 100>>),
     Entry("leftCard", <<(width * 3) \div 10, (height * 2) \div 10>>),
     Entry("rightCard", <<(width * 7) \div 10, (height * 2) \div 10>>) >>

\* ---------------------------------------------------------- hit testing
Infinity == [inf |-> TRUE, d |-> 0]

IsNearerOrEqual(d, nearestDistance) == nearestDistance.inf \/ d <= nearestDistance.d

IsNearer(d, nearestDistance) == nearestDistance.inf \/ d < nearestDistance.d

RECURSIVE NearestScan(_, _, _, _, _)
NearestScan(point, candidates, i, nearest, nearestDistance) ==
  IF i > Len(candidates)
    THEN [nearest |-> nearest, nearestDistance |-> nearestDistance]
    ELSE LET currentDistance == distanceSq(point, candidates[i].pt)
         IN IF IsNearer(currentDistance, nearestDistance)
              THEN NearestScan(point, candidates, i + 1, candidates[i].key,
                               [inf |-> FALSE, d |-> currentDistance])
              ELSE NearestScan(point, candidates, i + 1, nearest, nearestDistance)

nearestMarker(point, candidates) ==
  LET r == NearestScan(point, candidates, 1, NoKey, Infinity)
  IN IF ~r.nearestDistance.inf /\ r.nearestDistance.d < PICK_RADIUS * PICK_RADIUS
       THEN r.nearest
       ELSE NoKey

\* value / Math.max(sizeDim / photoDim, 0.0001)
DivByScaleCoarse(value, sizeDim, photoDim) ==
  IF sizeDim * 100 >= photoDim
    THEN (value * photoDim) \div sizeDim
    ELSE value * 100

DivByScale(value, sizeDim, photoDim) ==
  IF sizeDim * MIN_SCALE_DEN >= photoDim
    THEN (value * photoDim) \div sizeDim
    ELSE value * MIN_SCALE_DEN

getImagePointFromEvent(pointer, sz, ph) ==
  << clamp(DivByScale(pointer[1], sz.width, ph.width), 0, ph.width),
     clamp(DivByScale(pointer[2], sz.height, ph.height), 0, ph.height) >>

\* ---------------------------------------------------------- measurement
\* CARD_WIDTH_MM = 85.6, in tenths of a millimetre
CARD_WIDTH_MM_X10 == 856
MIN_CARD_PIXEL_WIDTH == 90
MIN_PD_MM == 45
MAX_PD_MM == 80

ISSUE_CARD == "Card markers are too close. Move card corner points to real card edges."
ISSUE_RANGE == "Estimated PD is outside expected range (45-80 mm)."
ISSUE_TILT == "Card line appears heavily tilted. Keep card parallel to camera for better scale."

QUALITY_LOW == "Low confidence - check marker placement and retake."
QUALITY_GOOD == "Good quality capture. Manual marker check still recommended."
QUALITY_MODERATE == "Moderate quality. Consider another capture to confirm."

Abs(a) == IF a < 0 THEN -a ELSE a

RECURSIVE SqrtSearch(_, _, _)
SqrtSearch(n, lo, hi) ==
  IF lo >= hi
    THEN lo
    ELSE LET mid == (lo + hi + 1) \div 2
         IN IF mid * mid <= n THEN SqrtSearch(n, mid, hi) ELSE SqrtSearch(n, lo, mid - 1)

\* Math.hypot(a.x - b.x, a.y - b.y) in whole pixels: exact when the distance
\* is a whole number, the whole part of it otherwise
distance(a, b) == SqrtSearch(distanceSq(a, b), 0, Abs(a[1] - b[1]) + Abs(a[2] - b[2]))

\* fractions << numerator, denominator >> with a positive denominator
Less(q, r) == q[1] * r[2] < r[1] * q[2]

Whole(n) == << n, 1 >>

\* Math.round(pdMm * 2): the number of half millimetres, halves rounding up
RoundToHalvesDown(pdMm) == (2 * pdMm[1]) \div pdMm[2]

\* halves rounding down instead of up
RoundToHalvesTiesDown(pdMm) == -((pdMm[2] - 4 * pdMm[1]) \div (2 * pdMm[2]))

RoundToHalves(pdMm) == (4 * pdMm[1] + pdMm[2]) \div (2 * pdMm[2])

\* pdMm < MIN_PD_MM || pdMm > MAX_PD_MM
OutOfRange(pdMm) == Less(pdMm, Whole(MIN_PD_MM)) \/ Less(Whole(MAX_PD_MM), pdMm)

TiltedInclusive(dy, width) == 5 * dy >= Max(width, 1)

\* cardTiltRatio > 0.2, with cardTiltRatio = dy / Math.max(cardPixelWidth, 1);
\* 5 * dy is whole, so it exceeds the width iff it exceeds the whole part of it
Tilted(dy, width) == 5 * dy > Max(width, 1)

IssuesShortCircuit(tooClose, outOfRange, tilted) ==
  IF tooClose THEN << ISSUE_CARD >>
  ELSE IF outOfRange THEN << ISSUE_RANGE >>
  ELSE IF tilted THEN << ISSUE_TILT >>
  ELSE << >>

\* the three issues.push calls, each under its own condition
Issues(tooClose, outOfRange, tilted) ==
  (IF tooClose THEN << ISSUE_CARD >> ELSE << >>)
    \o (IF outOfRange THEN << ISSUE_RANGE >> ELSE << >>)
    \o (IF tilted THEN << ISSUE_TILT >> ELSE << >>)

ConfidenceNoPenalty(cardPixelWidth, dy, outOfRange) ==
  LET width == Max(cardPixelWidth, 1)
      scale220 == clamp(cardPixelWidth - MIN_CARD_PIXEL_WIDTH, 0, 220)
      tiltW == clamp(5 * dy, 0, width)
      den == 100 * 220 * width
  IN << clamp(35 * 220 * width + 45 * scale220 * width + 20 * 220 * (width - tiltW), 0, den),
        den >>

\* confidence as a fraction over 100 * 220 * max(cardPixelWidth, 1):
\* scaleConfidence = scale220 / 220, tiltConfidence = (width - tiltW) / width
Confidence(cardPixelWidth, dy, outOfRange) ==
  LET width == Max(cardPixelWidth, 1)
      scale220 == clamp(cardPixelWidth - MIN_CARD_PIXEL_WIDTH, 0, 220)
      tiltW == clamp(5 * dy, 0, width)
      den == 100 * 220 * width
      raw == 35 * 220 * width + 45 * scale220 * width + 20 * 220 * (width - tiltW)
      penalised == IF outOfRange THEN raw - 30 * 220 * width ELSE raw
  IN << clamp(penalised, 0, den), den >>

QualityIgnoringIssues(confidence, issues) ==
  IF ~Less(confidence, << 3, 4 >>) THEN QUALITY_GOOD
  ELSE IF ~Less(confidence, << 1, 2 >>) THEN QUALITY_MODERATE
  ELSE QUALITY_LOW

QualityMessage(confidence, issues) ==
  IF ~Less(confidence, << 3, 4 >>) /\ Len(issues) = 0 THEN QUALITY_GOOD
  ELSE IF ~Less(confidence, << 1, 2 >>) THEN QUALITY_MODERATE
  ELSE QUALITY_LOW

MmPerPixelUnguarded(cardPixelWidth) == << CARD_WIDTH_MM_X10, 10 * Max(cardPixelWidth, 1) >>

\* cardPixelWidth > 0 ? CARD_WIDTH_MM / cardPixelWidth : 0
MmPerPixel(cardPixelWidth) ==
  IF cardPixelWidth > 0 THEN << CARD_WIDTH_MM_X10, 10 * cardPixelWidth >> ELSE Whole(0)

calculatePdSwapped(m) ==
  LET pupilPixelDistance == distance(Get(m, "leftCard"), Get(m, "rightCard"))
      cardPixelWidth == distance(Get(m, "leftPupil"), Get(m, "rightPupil"))
      mmPerPixel == MmPerPixel(cardPixelWidth)
      pdMm == << pupilPixelDistance * mmPerPixel[1], mmPerPixel[2] >>
      dy == Abs(Get(m, "leftPupil")[2] - Get(m, "rightPupil")[2])
      issues == Issues(cardPixelWidth < MIN_CARD_PIXEL_WIDTH, OutOfRange(pdMm),
                       Tilted(dy, cardPixelWidth))
      confidence == Confidence(cardPixelWidth, dy, OutOfRange(pdMm))
  IN [pupilPixelDistance |-> pupilPixelDistance,
      cardPixelWidth |-> cardPixelWidth,
      mmPerPixel |-> mmPerPixel,
      pdMm |-> pdMm,
      pdMmRoundedHalves |-> RoundToHalves(pdMm),
      confidence |-> confidence,
      qualityMessage |-> QualityMessage(confidence, issues),
      issues |-> issues,
      valid |-> Len(issues) = 0]

calculatePd(m) ==
  LET pupilPixelDistance == distance(Get(m, "leftPupil"), Get(m, "rightPupil"))
      cardPixelWidth == distance(Get(m, "leftCard"), Get(m, "rightCard"))
      mmPerPixel == MmPerPixel(cardPixelWidth)
      pdMm == << pupilPixelDistance * mmPerPixel[1], mmPerPixel[2] >>
      dy == Abs(Get(m, "leftCard")[2] - Get(m, "rightCard")[2])
      issues == Issues(cardPixelWidth < MIN_CARD_PIXEL_WIDTH, OutOfRange(pdMm),
                       Tilted(dy, cardPixelWidth))
      confidence == Confidence(cardPixelWidth, dy, OutOfRange(pdMm))
  IN [pupilPixelDistance |-> pupilPixelDistance,
      cardPixelWidth |-> cardPixelWidth,
      mmPerPixel |-> mmPerPixel,
      pdMm |-> pdMm,
      pdMmRoundedHalves |-> RoundToHalves(pdMm),
      confidence |-> confidence,
      qualityMessage |-> QualityMessage(confidence, issues),
      issues |-> issues,
      valid |-> Len(issues) = 0]

\* -------------------------------------------------------------- storage
MAX_READINGS == 25
MSG_FIX_ISSUES == "Fix highlighted issues before saving this measurement."

Take(s, n) == SubSeq(s, 1, Min(n, Len(s)))

\* without slice(0, 25)
saveReadingUncapped(reading, stored, writeOk) ==
  LET next == << reading >> \o stored
  IN IF writeOk
       THEN [next |-> next, storage |-> next]
       ELSE [next |-> stored, storage |-> stored]

\* saveReading: the list it returns and what localStorage holds afterwards
saveReading(reading, stored, writeOk) ==
  LET next == Take(<< reading >> \o stored, MAX_READINGS)
  IN IF writeOk
       THEN [next |-> next, storage |-> next]
       ELSE [next |-> stored, storage |-> stored]

clearReadings(stored, removeOk) == IF removeOk THEN << >> ELSE stored

\* toCanvas: the display position of an image point, point * (size / photo)
toCanvas(point, sz, ph) ==
  << (point[1] * sz.width) \div ph.width, (point[2] * sz.height) \div ph.height >>

\* ------------------------------------------------- auto-suggest results
MSG_NO_FACE == "No face found. Place markers manually."
MSG_EYES_UNCLEAR == "Face found, but eyes were unclear. Please set pupils manually."
MSG_ERROR == "Auto-detection unavailable on this device. Manual mode is still available."
MSG_SUCCESS == "Auto-suggested markers loaded. Fine-tune points for best accuracy."

\* a list of landmarks is a function from list index to the normalized point
\* in percent; it holds the entries that decide the result (forehead 10, chin
\* 152, cheeks 234 and 454, eye corners and lids, irises), the others lie
\* within their bounding box; the indices it lacks are beyond its length
LEFT_IRIS_INDICES == << 468, 469, 470, 471, 472 >>
RIGHT_IRIS_INDICES == << 473, 474, 475, 476, 477 >>
LEFT_EYE_FALLBACK == << 33, 133, 159, 145 >>
RIGHT_EYE_FALLBACK == << 362, 263, 386, 374 >>

NoPoint == << >>
NoCorners == << >>

\* { x: landmark.x * width, y: landmark.y * height }; whole for the
\* enumerated landmarks and photo sizes
toPoint(landmark, width, height) ==
  << (landmark[1] * width) \div 100, (landmark[2] * height) \div 100 >>

collectIndexedPoints(landmarks, indices, width, height) ==
  LET exists(index) == index \in DOMAIN landmarks
      present == SelectSeq(indices, exists)
  IN [k \in 1..Len(present) |-> toPoint(landmarks[present[k]], width, height)]

RECURSIVE SumPoints(_, _)
SumPoints(points, n) ==
  IF n = 0 THEN << 0, 0 >>
  ELSE LET acc == SumPoints(points, n - 1)
       IN << acc[1] + points[n][1], acc[2] + points[n][2] >>

averagePoints(points) ==
  IF Len(points) = 0
    THEN NoPoint
    ELSE LET sum == SumPoints(points, Len(points))
         IN << sum[1] \div Len(points), sum[2] \div Len(points) >>

SetMin(S) == CHOOSE x \in S : \A y \in S : x <= y
SetMax(S) == CHOOSE x \in S : \A y \in S : x >= y

\* suggestedCardWidth / 2 = faceWidth * 0.7 / 2, faceHeight * 0.2 and
\* faceHeight * 0.05 are whole for the enumerated landmarks
estimateCardCorners(landmarks, width, height) ==
  IF DOMAIN landmarks = {}
    THEN NoCorners
    ELSE LET xs == {toPoint(landmarks[i], width, height)[1] : i \in DOMAIN landmarks}
             ys == {toPoint(landmarks[i], width, height)[2] : i \in DOMAIN landmarks}
             forehead == IF 10 \in DOMAIN landmarks
                           THEN toPoint(landmarks[10], width, height) ELSE NoPoint
             centerX == IF forehead # NoPoint THEN forehead[1]
                        ELSE (SetMin(xs) + SetMax(xs)) \div 2
             faceWidth == SetMax(xs) - SetMin(xs)
             faceHeight == SetMax(ys) - SetMin(ys)
             halfCardWidth == (7 * faceWidth) \div 20
             cardY == (IF forehead # NoPoint THEN forehead[2]
                       ELSE SetMin(ys) + faceHeight \div 5) - faceHeight \div 20
         IN << Entry("leftCard", << centerX - halfCardWidth, cardY >>),
               Entry("rightCard", << centerX + halfCardWidth, cardY >>) >>

ErrorResult == [status |-> "error", suggestions |-> << >>, message |-> MSG_ERROR]

\* a rejection leaves the async function instead of being caught
autoSuggestMarkersUncaught(loaded, landmarker, detection, width, height) ==
  IF ~loaded \/ ~landmarker \/ detection.throws
    THEN [status |-> "rejected", suggestions |-> << >>, message |-> ""]
    ELSE [status |-> "no-face", suggestions |-> << >>, message |-> MSG_NO_FACE]

\* an autoSuggestMarkers without the fallback to the eye corners
autoSuggestMarkersIrisOnly(loaded, landmarker, detection, width, height) ==
  IF ~loaded \/ ~landmarker \/ detection.throws
    THEN ErrorResult
    ELSE IF Len(detection.faceLandmarks) = 0
      THEN [status |-> "no-face", suggestions |-> << >>, message |-> MSG_NO_FACE]
      ELSE LET landmarks == detection.faceLandmarks[1]
               leftPupil ==
                 averagePoints(collectIndexedPoints(landmarks, LEFT_IRIS_INDICES, width, height))
               rightPupil ==
                 averagePoints(collectIndexedPoints(landmarks, RIGHT_IRIS_INDICES, width, height))
               cardCorners == estimateCardCorners(landmarks, width, height)
           IN IF leftPupil = NoPoint \/ rightPupil = NoPoint
                THEN [status |-> "no-face", suggestions |-> << >>,
                      message |-> MSG_EYES_UNCLEAR]
                ELSE [status |-> "success",
                      suggestions |->
                        << Entry("leftPupil", leftPupil), Entry("rightPupil", rightPupil) >>
                          \o (IF cardCorners # NoCorners THEN cardCorners ELSE << >>),
                      message |-> MSG_SUCCESS]

\* what autoSuggestMarkers resolves with: `loaded` and `landmarker` tell
\* whether the awaited loadImage and getFaceLandmarker fulfilled, `detection`
\* is what faceLandmarker.detect(image) does
autoSuggestMarkers(loaded, landmarker, detection, width, height) ==
  IF ~loaded \/ ~landmarker \/ detection.throws
    THEN ErrorResult
    ELSE IF Len(detection.faceLandmarks) = 0
      THEN [status |-> "no-face", suggestions |-> << >>, message |-> MSG_NO_FACE]
      ELSE LET landmarks == detection.faceLandmarks[1]
               leftIris ==
                 averagePoints(collectIndexedPoints(landmarks, LEFT_IRIS_INDICES, width, height))
               rightIris ==
                 averagePoints(collectIndexedPoints(landmarks, RIGHT_IRIS_INDICES, width, height))
               leftEyeFallback ==
                 averagePoints(collectIndexedPoints(landmarks, LEFT_EYE_FALLBACK, width, height))
               rightEyeFallback ==
                 averagePoints(collectIndexedPoints(landmarks, RIGHT_EYE_FALLBACK, width, height))
               cardCorners == estimateCardCorners(landmarks, width, height)
               leftPupil == IF leftIris # NoPoint THEN leftIris ELSE leftEyeFallback
               rightPupil == IF rightIris # NoPoint THEN rightIris ELSE rightEyeFallback
           IN IF leftPupil = NoPoint \/ rightPupil = NoPoint
                THEN [status |-> "no-face", suggestions |-> << >>,
                      message |-> MSG_EYES_UNCLEAR]
                ELSE [status |-> "success",
                      suggestions |->
                        << Entry("leftPupil", leftPupil), Entry("rightPupil", rightPupil) >>
                          \o (IF cardCorners # NoCorners THEN cardCorners ELSE << >>),
                      message |-> MSG_SUCCESS]

\* a face wider than the frame: the irises at 20% and 80% of the width
WideFace ==
  (10 :> << 50, 22 >>) @@ (152 :> << 50, 102 >>)
    @@ (234 :> << -20, 60 >>) @@ (454 :> << 120, 60 >>)
    @@ (33 :> << 14, 46 >>) @@ (133 :> << 22, 46 >>)
    @@ (159 :> << 18, 44 >>) @@ (145 :> << 18, 48 >>)
    @@ (362 :> << 78, 46 >>) @@ (263 :> << 86, 46 >>)
    @@ (386 :> << 82, 44 >>) @@ (374 :> << 82, 48 >>)
    @@ (468 :> << 20, 46 >>) @@ (469 :> << 22, 46 >>) @@ (470 :> << 20, 44 >>)
    @@ (471 :> << 18, 46 >>) @@ (472 :> << 20, 48 >>)
    @@ (473 :> << 80, 46 >>) @@ (474 :> << 82, 46 >>) @@ (475 :> << 80, 44 >>)
    @@ (476 :> << 78, 46 >>) @@ (477 :> << 80, 48 >>)

\* a face within the frame whose forehead touches the upper edge
TopFace ==
  (10 :> << 50, 0 >>) @@ (152 :> << 50, 80 >>)
    @@ (234 :> << 20, 40 >>) @@ (454 :> << 80, 40 >>)
    @@ (33 :> << 32, 30 >>) @@ (133 :> << 40, 30 >>)
    @@ (159 :> << 36, 28 >>) @@ (145 :> << 36, 32 >>)
    @@ (362 :> << 60, 30 >>) @@ (263 :> << 68, 30 >>)
    @@ (386 :> << 64, 28 >>) @@ (374 :> << 64, 32 >>)
    @@ (468 :> << 38, 30 >>) @@ (469 :> << 40, 30 >>) @@ (470 :> << 38, 28 >>)
    @@ (471 :> << 36, 30 >>) @@ (472 :> << 38, 32 >>)
    @@ (473 :> << 62, 30 >>) @@ (474 :> << 64, 30 >>) @@ (475 :> << 62, 28 >>)
    @@ (476 :> << 60, 30 >>) @@ (477 :> << 62, 32 >>)

\* the first `length` entries of a list of landmarks
Shortened(landmarks, length) ==
  [i \in {j \in DOMAIN landmarks : j < length} |-> landmarks[i]]

Detected(faceLandmarks) == [throws |-> FALSE, faceLandmarks |-> faceLandmarks]

\* what faceLandmarker.detect does in the flow of the application
AppDetections ==
  { [throws |-> TRUE, faceLandmarks |-> << >>],
    Detected(<< >>), Detected(<< WideFace >>), Detected(<< TopFace >>) }

\* and further: lists without the iris entries, with one iris entry, without
\* any entry of the right eye, without any eye entry, empty
Detections ==
  AppDetections \cup
    { Detected(<< Shortened(WideFace, 468) >>), Detected(<< Shortened(WideFace, 468) @@
                                                          (468 :> << 20, 46 >>) >>),
      Detected(<< Shortened(WideFace, 200) >>),
      Detected(<< Shortened(WideFace, 11) >>), Detected(<< << >> >>) }

\* suggestions of the two faces for a photo
TopFaceSuggestions(ph) ==
  autoSuggestMarkers(TRUE, TRUE, Detected(<< TopFace >>), ph.width, ph.height).suggestions

FullSuggestions(ph) ==
  autoSuggestMarkers(TRUE, TRUE, Detected(<< WideFace >>), ph.width, ph.height).suggestions

\* what autoSuggestMarkers(photo.dataUrl, photo.width, photo.height) can resolve with
AutoSuggestResults(ph) ==
  { autoSuggestMarkers(TRUE, TRUE, detection, ph.width, ph.height) :
      detection \in AppDetections }

\* ---------------------------------------------------------------- inputs
PhotoDims == { <<100, 50>> }

\* displayed size of the frame as a fraction <<num, den>> of the photo size
DisplayFactors == { <<0, 1>>, <<1, 2>>, <<1, 1>> }

\* pointer positions relative to the canvas, in CSS pixels
PointerPositions == { <<50, 25>>, <<20, -12>> }

\* ----------------------------------------------------------------- state
VARIABLES
  step,            \* App: useState<AppStep>
  photo,           \* App: useState<CapturedPhoto | null>
  markers,         \* App: useState<MarkerMap | null>, the marker store
  autoState,       \* App: useState<AutoState>
  autoMessage,     \* App: useState<string>
  size,            \* AnnotationCanvas: useState size
  activeMarker,    \* AnnotationCanvas: useState<MarkerKey | null>
  markersRef,      \* AnnotationCanvas: useRef(markers)
  calls,           \* runAutoDetect invocations awaiting autoSuggestMarkers
  nextCallId,      \* number of runAutoDetect invocations that started a call
  autoRuns,        \* calls the auto-detect effect started for the current photo
  lastResolved,    \* id of the call whose await resolved last (0: none yet)
  effectsPending,  \* passive effects of the last commit have not run yet
  pointerCapture,  \* the canvas holds the capture of a pointer
  lastDownMissed,  \* the last pointer-down on this canvas hit no marker
  nMoves,          \* pointer-moves that wrote the store so far
  savingError,     \* App: useState<string | null>
  history,         \* App: useState<SavedReading[]>
  latestReading,   \* App: useState<SavedReading | null>
  storage,         \* localStorage[STORAGE_KEY], as the list it parses to
  roundArg,        \* calculatePd: a value of pdMm, as a fraction
  roundResults,    \* calculatePd: the successive values of pdMmRounded, in halves
  faceLandmarkerPromise,  \* landmarks: 0 for null, else the index of an initialization
  landmarkerInits,        \* landmarks: the runs of the async initializer, each at its await
  awaitedLandmarker,      \* autoSuggestMarkers: call id -> the promise the call awaits
  camera                  \* useCamera: status, streamRef, the video's srcObject, the
                          \* streams with running tracks, the startCamera calls at an await

vars == << step, photo, markers, autoState, autoMessage, size, activeMarker,
           markersRef, calls, nextCallId, autoRuns, lastResolved, effectsPending,
           pointerCapture, lastDownMissed, nMoves, savingError,
           history, latestReading, storage, roundArg, roundResults,
           faceLandmarkerPromise, landmarkerInits, awaitedLandmarker, camera >>

\* the state of <App> and of its canvas
appVars == << step, photo, markers, autoState, autoMessage, size, activeMarker,
              markersRef, calls, nextCallId, autoRuns, lastResolved, effectsPending,
              pointerCapture, lastDownMissed, nMoves, savingError,
              history, latestReading, storage >>

\* the state the handlers of <App> do not touch
outsideApp == << roundArg, roundResults,
                 faceLandmarkerPromise, landmarkerInits, awaitedLandmarker >>

Terminal == {"success", "no-face", "error"}

\* the committed state the handlers' closures see
Cur ==
  [ step |-> step, photo |-> photo, markers |-> markers, autoState |-> autoState,
    autoMessage |-> autoMessage, size |-> size, activeMarker |-> activeMarker,
    markersRef |-> markersRef, pointerCapture |-> pointerCapture,
    lastDownMissed |-> lastDownMissed, calls |-> calls, nextCallId |-> nextCallId,
    autoRuns |-> autoRuns, lastResolved |-> lastResolved,
    savingError |-> savingError, history |-> history,
    latestReading |-> latestReading, storage |-> storage, camera |-> camera ]

\* useMemo(() => (markers ? calculatePd(markers) : null), [markers]): the
\* value every committed render holds
measurement == IF markers = NoMarkers THEN NoMeasurement ELSE calculatePd(markers)

\* <AnnotationCanvas> is rendered
Mounted(s) == s.step = "annotate" /\ s.photo # NoPhoto /\ s.markers # NoMarkers

\* --------------------------------------------------------------- useCamera
\* the camera is left out: a frame can be captured whenever the camera step
\* is shown
NoCamera == [modelled |-> FALSE]

\* streams are numbered by the startCamera call that acquired them; 0 is null
IdleCamera ==
  [status |-> "idle", streamRef |-> 0, srcObject |-> 0, live |-> {}, calls |-> {},
   started |-> 0]

\* releaseStream; video: videoRef.current is set, <CameraCapture> is rendered
releaseStream(c, video) ==
  [c EXCEPT !.live = @ \ {c.streamRef},
            !.streamRef = 0,
            !.srcObject = IF video THEN 0 ELSE @]

stopCamera(c, video) ==
  IF c = NoCamera THEN c ELSE [releaseStream(c, video) EXCEPT !.status = "idle"]

\* startCamera up to its await of getUserMedia
startCamera(c, video) ==
  [releaseStream(c, video) EXCEPT !.status = "starting",
                                  !.calls = @ \cup {[id |-> c.started + 1, at |-> "getUserMedia"]},
                                  !.started = @ + 1]

\* the continuation of startCamera after getUserMedia fulfilled
afterGetUserMedia(c, call, video) ==
  [c EXCEPT !.streamRef = call.id,
            !.live = @ \cup {call.id},
            !.srcObject = IF video THEN call.id ELSE @,
            !.calls = (@ \ {call}) \cup (IF video THEN {[call EXCEPT !.at = "play"]} ELSE {}),
            !.status = IF video THEN @ ELSE "ready"]

\* capturePhoto returns a frame: the button is enabled and the video shows a
\* running stream
CanCapture ==
  IF camera = NoCamera
    THEN TRUE
    ELSE camera.status = "ready" /\ camera.srcObject # 0 /\ camera.srcObject \in camera.live

CanStartCamera == IF camera = NoCamera THEN TRUE ELSE camera.started < MaxStarts

\* ------------------------------------------------------- runAutoDetect
\* up to the await: starts one call bound to the photo of the closure
runAutoDetect(s, automatic) ==
  IF s.photo = NoPhoto
    THEN s
    ELSE [s EXCEPT !.autoState = "loading",
                   !.calls = @ \cup {[id |-> s.nextCallId + 1, photo |-> s.photo]},
                   !.nextCallId = @ + 1,
                   !.autoRuns = IF automatic THEN @ + 1 ELSE @]

RECURSIVE MergeFrom(_, _, _)
MergeFrom(next, suggestions, i) ==
  IF i > Len(suggestions)
    THEN next
    ELSE MergeFrom(Assign(next, suggestions[i].key, suggestions[i].pt), suggestions, i + 1)

\* { ...suggestions, ...current }: the store wins on the keys both hold
MergeKeepCurrent(current, suggestions) ==
  IF current = NoMarkers THEN current ELSE MergeFrom(suggestions, current, 1)

\* the updater passed to setMarkers on success
MergeSuggestions(current, suggestions) ==
  IF current = NoMarkers THEN current ELSE MergeFrom(current, suggestions, 1)

AfterAwaitAlwaysMerge(s, call, result) ==
  [s EXCEPT !.autoState = result.status,
            !.autoMessage = result.message,
            !.markers = IF @ = NoMarkers THEN @
                        ELSE MergeFrom(createDefaultMarkers(s.photo.width, s.photo.height),
                                       result.suggestions, 1),
            !.calls = @ \ {call},
            !.lastResolved = call.id]

AfterAwaitDropStale(s, call, result) ==
  IF call.id < s.nextCallId
    THEN [s EXCEPT !.calls = @ \ {call}, !.lastResolved = call.id]
    ELSE [s EXCEPT !.autoState = result.status,
                   !.autoMessage = result.message,
                   !.markers = IF result.status = "success"
                                 THEN MergeSuggestions(@, result.suggestions) ELSE @,
                   !.calls = @ \ {call},
                   !.lastResolved = call.id]

\* after the await
AfterAwait(s, call, result) ==
  [s EXCEPT !.autoState = result.status,
            !.autoMessage = result.message,
            !.markers = IF result.status = "success"
                          THEN MergeSuggestions(@, result.suggestions) ELSE @,
            !.calls = @ \ {call},
            !.lastResolved = call.id]

\* ------------------------------------------------------ passive effects
MarkersRefEffect(s) == IF Mounted(s) THEN [s EXCEPT !.markersRef = s.markers] ELSE s

AutoDetectGuardAnyEdit(s) ==
  s.step = "annotate" /\ s.photo # NoPhoto /\ s.markers # NoMarkers

AutoDetectGuard(s) ==
  s.step = "annotate" /\ s.photo # NoPhoto /\ s.markers # NoMarkers /\ s.autoState = "idle"

AutoDetectEffect(s) == IF AutoDetectGuard(s) THEN runAutoDetect(s, TRUE) ELSE s

\* useEffect: if (step === "camera" && camera.status === "idle") startCamera()
CameraEffect(s) ==
  IF s.camera # NoCamera /\ s.step = "camera" /\ s.camera.status = "idle"
    THEN [s EXCEPT !.camera = startCamera(@, TRUE)]
    ELSE s

Effects(s) == AutoDetectEffect(CameraEffect(MarkersRefEffect(s)))

\* the state after React has flushed the pending passive effects, which it
\* does before it renders the next update
Pre == IF effectsPending THEN Effects(Cur) ELSE Cur

\* mounting and unmounting of <AnnotationCanvas> with the render of `new`
Render(old, new) ==
  IF ~Mounted(new)
    THEN [new EXCEPT !.size = NoSize, !.activeMarker = NoKey, !.markersRef = NoMarkers,
                     !.pointerCapture = FALSE, !.lastDownMissed = FALSE]
    ELSE IF ~Mounted(old)
      THEN [new EXCEPT !.size = NoSize, !.activeMarker = NoKey, !.markersRef = new.markers,
                       !.pointerCapture = FALSE, !.lastDownMissed = FALSE]
      ELSE new

\* the <video> of <CameraCapture> exists on the camera step only
RenderVideo(s) ==
  IF s.camera = NoCamera \/ s.step = "camera"
    THEN s
    ELSE [s EXCEPT !.camera = [@ EXCEPT !.srcObject = 0]]

Install(s) ==
  /\ step' = s.step
  /\ photo' = s.photo
  /\ markers' = s.markers
  /\ autoState' = s.autoState
  /\ autoMessage' = s.autoMessage
  /\ size' = s.size
  /\ activeMarker' = s.activeMarker
  /\ markersRef' = s.markersRef
  /\ pointerCapture' = s.pointerCapture
  /\ lastDownMissed' = s.lastDownMissed
  /\ calls' = s.calls
  /\ nextCallId' = s.nextCallId
  /\ autoRuns' = s.autoRuns
  /\ lastResolved' = s.lastResolved
  /\ savingError' = s.savingError
  /\ history' = s.history
  /\ latestReading' = s.latestReading
  /\ storage' = s.storage
  /\ camera' = s.camera

\* commit of a discrete event: its passive effects run with it
CommitSync(new) ==
  /\ Install(Effects(RenderVideo(Render(Pre, new))))
  /\ effectsPending' = FALSE

\* commit of any other update: its passive effects are deferred
CommitDeferred(new) ==
  /\ Install(RenderVideo(Render(Pre, new)))
  /\ effectsPending' = TRUE

\* a handler that returns without any state update: nothing is rendered
NoUpdate ==
  UNCHANGED << step, photo, markers, autoState, autoMessage, size, activeMarker,
               markersRef, calls, nextCallId, autoRuns, lastResolved, effectsPending,
               savingError, history, latestReading, storage, camera >>

\* state outside React (pointer capture, bookkeeping) is written at once
Outside(s, capture, missed) ==
  [s EXCEPT !.pointerCapture = capture, !.lastDownMissed = missed]

\* ---------------------------------------------------------------- Init
\* no value of pdMm is being rounded
InitOutsideApp ==
  /\ roundArg = << 0, 1 >>
  /\ roundResults = << >>
  /\ faceLandmarkerPromise = 0
  /\ landmarkerInits = << >>
  /\ awaitedLandmarker = << >>

Init ==
  /\ step = "instructions"
  /\ photo = NoPhoto
  /\ markers = NoMarkers
  /\ autoState = "idle"
  /\ autoMessage = ""
  /\ size = NoSize
  /\ activeMarker = NoKey
  /\ markersRef = NoMarkers
  /\ pointerCapture = FALSE
  /\ lastDownMissed = FALSE
  /\ calls = {}
  /\ nextCallId = 0
  /\ autoRuns = 0
  /\ lastResolved = 0
  /\ effectsPending = FALSE
  /\ nMoves = 0
  /\ savingError = NoError
  /\ storage = << >>
  /\ history = storage
  /\ latestReading = NoReading
  /\ camera = NoCamera
  /\ InitOutsideApp

\* ------------------------------------------------------------ App steps
\* "Start measurement" on the instructions step, "New capture" on the result step
startFlow ==
  /\ step \in {"instructions", "result"}
  /\ CanStartCamera
  /\ CommitSync([Pre EXCEPT !.step = "camera"])
  /\ UNCHANGED << nMoves, outsideApp >>

\* "Back" on the camera step
onCancel ==
  /\ step = "camera"
  /\ CommitSync([Pre EXCEPT !.camera = stopCamera(@, TRUE), !.step = "instructions"])
  /\ UNCHANGED << nMoves, outsideApp >>

handleCaptureKeepMarkers(dims) ==
  /\ step = "camera"
  /\ CanCapture
  /\ nextCallId + nMoves < MaxOps
  /\ LET captured == [id |-> nextCallId + 1, width |-> dims[1], height |-> dims[2]]
     IN CommitSync([Pre EXCEPT !.camera = stopCamera(@, TRUE),
                               !.photo = captured,
                               !.markers = IF @ = NoMarkers
                                             THEN createDefaultMarkers(captured.width, captured.height)
                                             ELSE @,
                               !.autoMessage = "",
                               !.autoState = "idle",
                               !.savingError = NoError,
                               !.step = "annotate",
                               !.autoRuns = 0])
  /\ UNCHANGED << nMoves, outsideApp >>

\* "Capture photo": camera.capturePhoto() returned a frame of size dims
handleCapture(dims) ==
  /\ step = "camera"
  /\ CanCapture
  /\ nextCallId + nMoves < MaxOps
  /\ LET captured == [id |-> nextCallId + 1, width |-> dims[1], height |-> dims[2]]
     IN CommitSync([Pre EXCEPT !.camera = stopCamera(@, TRUE),
                               !.photo = captured,
                               !.markers = createDefaultMarkers(captured.width, captured.height),
                               !.autoMessage = "",
                               !.autoState = "idle",
                               !.savingError = NoError,
                               !.step = "annotate",
                               !.autoRuns = 0])
  /\ UNCHANGED << nMoves, outsideApp >>

\* "Retake photo"
retakePhoto ==
  /\ Mounted(Cur)
  /\ CanStartCamera
  /\ CommitSync([Pre EXCEPT !.photo = NoPhoto,
                            !.markers = NoMarkers,
                            !.autoState = "idle",
                            !.autoMessage = "",
                            !.savingError = NoError,
                            !.step = "camera"])
  /\ UNCHANGED << nMoves, outsideApp >>

\* "View saved readings"
viewSavedReadings ==
  /\ step = "instructions"
  /\ Len(history) > 0
  /\ CommitSync([Pre EXCEPT !.step = "result"])
  /\ UNCHANGED << nMoves, outsideApp >>

\* saves whatever the measurement says
saveCurrentReadingUnchecked(writeOk) ==
  /\ Mounted(Cur)
  /\ LET reading == [sourceCapturedAt |-> photo.id,
                     pdMm |-> measurement.pdMmRoundedHalves,
                     markers |-> markers]
         saved == saveReading(reading, storage, writeOk)
     IN CommitSync([Pre EXCEPT !.savingError = NoError,
                               !.storage = saved.storage,
                               !.history = saved.next,
                               !.latestReading = reading,
                               !.step = "result"])
  /\ UNCHANGED << nMoves, outsideApp >>

\* "Save reading"; writeOk: localStorage.setItem did not throw
saveCurrentReading(writeOk) ==
  /\ Mounted(Cur)
  /\ IF ~measurement.valid
       THEN CommitSync([Pre EXCEPT !.savingError = MSG_FIX_ISSUES])
       ELSE LET reading == [sourceCapturedAt |-> photo.id,
                            pdMm |-> measurement.pdMmRoundedHalves,
                            markers |-> markers]
                saved == saveReading(reading, storage, writeOk)
            IN CommitSync([Pre EXCEPT !.savingError = NoError,
                                      !.storage = saved.storage,
                                      !.history = saved.next,
                                      !.latestReading = reading,
                                      !.step = "result"])
  /\ UNCHANGED << nMoves, outsideApp >>

\* "Clear history"; removeOk: localStorage.removeItem did not throw
clearHistory(removeOk) ==
  /\ step = "result"
  /\ Len(history) > 0
  /\ CommitSync([Pre EXCEPT !.storage = clearReadings(@, removeOk),
                            !.history = << >>,
                            !.latestReading = NoReading])
  /\ UNCHANGED << nMoves, outsideApp >>

\* "Re-run auto-suggest"
rerunAutoDetect ==
  /\ Mounted(Cur)
  /\ nextCallId + nMoves < MaxOps
  /\ CommitSync(runAutoDetect(Pre, FALSE))
  /\ UNCHANGED << nMoves, outsideApp >>

\* autoSuggestMarkers resolves for one call; runAutoDetect continues after its await
resolveAutoDetect(call, result) ==
  /\ call \in calls
  /\ CommitDeferred(AfterAwait(Pre, call, result))
  /\ UNCHANGED << nMoves, outsideApp >>

\* the scheduler runs the deferred passive effects
flushEffects ==
  /\ effectsPending
  /\ Install(Effects(Cur))
  /\ effectsPending' = FALSE
  /\ UNCHANGED << nMoves, outsideApp >>

\* ----------------------------------------------------- AnnotationCanvas
\* ResizeObserver callback
resize(factor) ==
  /\ Mounted(Cur)
  /\ LET next == [width |-> (photo.width * factor[1]) \div factor[2],
                  height |-> (photo.height * factor[1]) \div factor[2]]
     IN /\ next # size
        /\ Install([Pre EXCEPT !.size = next])
  /\ effectsPending' = FALSE
  /\ UNCHANGED << nMoves, outsideApp >>

handlePointerDown(pointer) ==
  /\ Mounted(Cur)
  /\ LET hitPoint == getImagePointFromEvent(pointer, size, photo)
         key == nearestMarker(hitPoint, markersRef)
     IN IF key = NoKey
          THEN /\ NoUpdate
               /\ lastDownMissed' = TRUE
               /\ UNCHANGED pointerCapture
          ELSE CommitSync(Outside([Pre EXCEPT !.activeMarker = key], TRUE, FALSE))
  /\ UNCHANGED << nMoves, outsideApp >>

handlePointerMove(pointer) ==
  /\ Mounted(Cur)
  /\ activeMarker # NoKey
  /\ nextCallId + nMoves < MaxOps
  /\ LET nextPoint == getImagePointFromEvent(pointer, size, photo)
     IN CommitDeferred([Pre EXCEPT !.markers = Assign(markersRef, activeMarker, nextPoint)])
  /\ nMoves' = nMoves + 1
  /\ UNCHANGED outsideApp

handlePointerUp ==
  /\ Mounted(Cur)
  /\ activeMarker # NoKey
  /\ CommitSync(Outside([Pre EXCEPT !.activeMarker = NoKey], FALSE, lastDownMissed))
  /\ UNCHANGED << nMoves, outsideApp >>

\* pointercancel / lostpointercapture: the canvas registers no handler for them
lostPointerCapture ==
  /\ Mounted(Cur)
  /\ pointerCapture
  /\ NoUpdate
  /\ pointerCapture' = FALSE
  /\ UNCHANGED << lastDownMissed, nMoves, outsideApp >>

\* ----------------------------------------------------------------- Next
\* capture, detection and marker editing, with every enumerated pointer
\* position and display size
Next ==
  \/ startFlow
  \/ onCancel
  \/ \E dims \in PhotoDims : handleCapture(dims)
  \/ retakePhoto
  \/ rerunAutoDetect
  \/ \E call \in calls : \E result \in AutoSuggestResults(call.photo) :
        resolveAutoDetect(call, result)
  \/ flushEffects
  \/ \E factor \in DisplayFactors : resize(factor)
  \/ \E pointer \in PointerPositions : handlePointerDown(pointer)
  \/ \E pointer \in PointerPositions : handlePointerMove(pointer)
  \/ handlePointerUp
  \/ lostPointerCapture

Spec == Init /\ [][Next]_vars

\* the whole flow including the saved readings, with one display size and
\* one pointer position on the canvas
AppDisplayFactors == { <<1, 1>> }

AppPointerPositions == { <<20, -12>> }

NextApp ==
  \/ startFlow
  \/ onCancel
  \/ \E dims \in PhotoDims : handleCapture(dims)
  \/ retakePhoto
  \/ viewSavedReadings
  \/ \E writeOk \in BOOLEAN : saveCurrentReading(writeOk)
  \/ \E removeOk \in BOOLEAN : clearHistory(removeOk)
  \/ rerunAutoDetect
  \/ \E call \in calls : \E result \in AutoSuggestResults(call.photo) :
        resolveAutoDetect(call, result)
  \/ flushEffects
  \/ \E factor \in AppDisplayFactors : resize(factor)
  \/ \E pointer \in AppPointerPositions : handlePointerDown(pointer)
  \/ \E pointer \in AppPointerPositions : handlePointerMove(pointer)
  \/ handlePointerUp
  \/ lostPointerCapture

SpecApp == Init /\ [][NextApp]_vars

\* ---------------------------------------------------------- measurement
\* marker sets on a 1000 x 600 photo, all with whole-pixel distances: pupil
\* distances from 0 to 280, card widths 0, 50, 90, 200, 214, 250, 305, 310 and
\* 400, level and tilted
MeasureLeftPupils == { << 400, 480 >>, << 380, 480 >> }

MeasureRightPupils == { << 400, 480 >>, << 430, 480 >>, << 560, 480 >>, << 600, 480 >>,
                        << 660, 480 >> }

MeasureLeftCards == { << 300, 200 >> }

MeasureRightCards ==
  { << 300, 200 >>, << 350, 200 >>, << 340, 230 >>, << 390, 200 >>, << 500, 200 >>,
    << 514, 200 >>, << 610, 200 >>, << 700, 200 >>, << 600, 255 >>, << 500, 245 >>,
    << 500, 350 >>, << 620, 440 >> }

\* cards of fractional width (407.9, 412.3 and 400.08 pixels) around the tilt
\* threshold; they go with the left pupil at x = 400, for which the whole part
\* of the width gives the half millimetres of the exact width
MeasureTiltedCards == { << 700, 280 >>, << 700, 300 >>, << 692, 280 >> }

\* the annotate step with the markers dragged to the enumerated positions
InitMeasure ==
  /\ step = "annotate"
  /\ photo = [id |-> 1, width |-> 1000, height |-> 600]
  /\ \E leftPupil \in MeasureLeftPupils, rightPupil \in MeasureRightPupils,
        leftCard \in MeasureLeftCards,
        rightCard \in MeasureRightCards \cup MeasureTiltedCards :
       /\ rightCard \in MeasureTiltedCards => leftPupil = << 400, 480 >>
       /\ markers = << Entry("leftPupil", leftPupil), Entry("rightPupil", rightPupil),
                    Entry("leftCard", leftCard), Entry("rightCard", rightCard) >>
  /\ markersRef = markers
  /\ autoState = "no-face"
  /\ autoMessage = MSG_NO_FACE
  /\ size = [width |-> 1000, height |-> 600]
  /\ activeMarker = NoKey
  /\ pointerCapture = FALSE
  /\ lastDownMissed = FALSE
  /\ calls = {}
  /\ nextCallId = 1
  /\ autoRuns = 1
  /\ lastResolved = 1
  /\ effectsPending = FALSE
  /\ nMoves = 1
  /\ savingError = NoError
  /\ storage = << >>
  /\ history = storage
  /\ latestReading = NoReading
  /\ camera = NoCamera
  /\ InitOutsideApp

\* "Save reading" applies the measurement to the markers
NextMeasure == \E writeOk \in BOOLEAN : saveCurrentReading(writeOk)

SpecMeasure == InitMeasure /\ [][NextMeasure]_vars

\* ---------------------------------------------------- pointer round trip
\* a marker is being dragged and the pointer is put on the display position
\* of an image point: photos and frame sizes with scales from 0.00005 to 1
RoundTripFrames ==
  { [photo |-> << 100, 50 >>, size |-> << 100, 50 >>],
    [photo |-> << 100, 50 >>, size |-> << 50, 25 >>],
    [photo |-> << 20000, 10000 >>, size |-> << 100, 50 >>],
    [photo |-> << 20000, 10000 >>, size |-> << 2, 1 >>],
    [photo |-> << 20000, 10000 >>, size |-> << 1, 1 >>] }

\* image points of the photo whose display position is a whole pixel
RoundTripPoints(ph, sz) ==
  { point \in {0, ph.width \div 2, ph.width} \X {0, ph.height \div 2, ph.height} :
      /\ (point[1] * sz.width) % ph.width = 0
      /\ (point[2] * sz.height) % ph.height = 0 }

InitRoundTrip ==
  /\ step = "annotate"
  /\ \E frame \in RoundTripFrames :
       /\ photo = [id |-> 1, width |-> frame.photo[1], height |-> frame.photo[2]]
       /\ size = [width |-> frame.size[1], height |-> frame.size[2]]
  /\ markers = createDefaultMarkers(photo.width, photo.height)
  /\ markersRef = markers
  /\ autoState = "no-face"
  /\ autoMessage = MSG_NO_FACE
  /\ activeMarker \in MarkerKey
  /\ pointerCapture = TRUE
  /\ lastDownMissed = FALSE
  /\ calls = {}
  /\ nextCallId = 1
  /\ autoRuns = 1
  /\ lastResolved = 1
  /\ effectsPending = FALSE
  /\ nMoves = 0
  /\ savingError = NoError
  /\ storage = << >>
  /\ history = storage
  /\ latestReading = NoReading
  /\ camera = NoCamera
  /\ InitOutsideApp

NextRoundTrip ==
  \/ \E point \in RoundTripPoints(photo, size) :
        handlePointerMove(toCanvas(point, size, photo))
  \/ flushEffects

SpecRoundTrip == InitRoundTrip /\ [][NextRoundTrip]_vars

\* ------------------------------------------------- the rounding of pdMm
MaxRoundNum == 200

\* values of pdMm from 0 to 200 in steps of 1/8: the multiples of 0.5, the
\* exact ties between two of them (odd quarters) and values on either side
RoundArgs == { << n, d >> : n \in 0..MaxRoundNum, d \in {1, 4, 8} }

InitRound ==
  /\ step = "instructions"
  /\ photo = NoPhoto
  /\ markers = NoMarkers
  /\ autoState = "idle"
  /\ autoMessage = ""
  /\ size = NoSize
  /\ activeMarker = NoKey
  /\ markersRef = NoMarkers
  /\ pointerCapture = FALSE
  /\ lastDownMissed = FALSE
  /\ calls = {}
  /\ nextCallId = 0
  /\ autoRuns = 0
  /\ lastResolved = 0
  /\ effectsPending = FALSE
  /\ nMoves = 0
  /\ savingError = NoError
  /\ storage = << >>
  /\ history = storage
  /\ latestReading = NoReading
  /\ camera = NoCamera
  /\ roundArg \in RoundArgs
  /\ roundResults = << >>
  /\ faceLandmarkerPromise = 0
  /\ landmarkerInits = << >>
  /\ awaitedLandmarker = << >>

\* pdMmRounded = Math.round(pdMm * 2) / 2, applied to roundArg and then to
\* its own result
roundPdMm ==
  /\ Len(roundResults) < 2
  /\ roundResults' =
       Append(roundResults,
              RoundToHalves(IF roundResults = << >>
                              THEN roundArg
                              ELSE << roundResults[Len(roundResults)], 2 >>))
  /\ UNCHANGED << roundArg, appVars, camera, faceLandmarkerPromise, landmarkerInits,
                  awaitedLandmarker >>

NextRound == roundPdMm

SpecRound == InitRound /\ [][NextRound]_vars

\* ------------------------------------------------- the landmark detector
\* every call starts an initialization of its own
getFaceLandmarkerUncached(promise, inits) ==
  [promise |-> Len(inits) + 1, inits |-> Append(inits, "import")]

\* a getFaceLandmarker that starts a new initialization when the cached one
\* has failed
getFaceLandmarkerRetrying(promise, inits) ==
  IF promise = 0 \/ inits[promise] = "rejected"
    THEN [promise |-> Len(inits) + 1, inits |-> Append(inits, "import")]
    ELSE [promise |-> promise, inits |-> inits]

\* getFaceLandmarker: the promise it returns and the initializations started
\* so far; a new one runs to its first await, the dynamic import
getFaceLandmarker(promise, inits) ==
  IF promise = 0
    THEN [promise |-> Len(inits) + 1, inits |-> Append(inits, "import")]
    ELSE [promise |-> promise, inits |-> inits]

\* await loadImage(imageDataUrl) fulfils: the call goes on to
\* await getFaceLandmarker()
loadImageFulfils(call) ==
  /\ call \in calls
  /\ call.id \notin DOMAIN awaitedLandmarker
  /\ LET got == getFaceLandmarker(faceLandmarkerPromise, landmarkerInits)
     IN /\ faceLandmarkerPromise' = got.promise
        /\ landmarkerInits' = got.inits
        /\ awaitedLandmarker' = awaitedLandmarker @@ (call.id :> got.promise)
  /\ UNCHANGED << appVars, camera, roundArg, roundResults >>

\* await loadImage(imageDataUrl) rejects: caught, the call resolves with error
loadImageRejects(call) ==
  /\ call.id \notin DOMAIN awaitedLandmarker
  /\ resolveAutoDetect(call, autoSuggestMarkers(FALSE, FALSE, Detected(<< >>),
                                                call.photo.width, call.photo.height))

\* an await of the initializer settles: the import, then
\* FilesetResolver.forVisionTasks, then FaceLandmarker.createFromOptions
initializerSettles(init, fulfilled) ==
  /\ init \in 1..Len(landmarkerInits)
  /\ landmarkerInits[init] \in {"import", "fileset", "create"}
  /\ landmarkerInits' =
       [landmarkerInits EXCEPT ![init] =
          IF ~fulfilled THEN "rejected"
          ELSE IF @ = "import" THEN "fileset"
          ELSE IF @ = "fileset" THEN "create"
          ELSE "fulfilled"]
  /\ UNCHANGED << appVars, camera, roundArg, roundResults, faceLandmarkerPromise, awaitedLandmarker >>

\* the awaited promise of the detector has settled: the call detects and
\* resolves, and runAutoDetect continues after its await
landmarkerSettles(call, detection) ==
  /\ call.id \in DOMAIN awaitedLandmarker
  /\ landmarkerInits[awaitedLandmarker[call.id]] \in {"fulfilled", "rejected"}
  /\ resolveAutoDetect(call,
       autoSuggestMarkers(TRUE, landmarkerInits[awaitedLandmarker[call.id]] = "fulfilled",
                          detection, call.photo.width, call.photo.height))

NextDetect ==
  \/ startFlow
  \/ \E dims \in PhotoDims : handleCapture(dims)
  \/ retakePhoto
  \/ rerunAutoDetect
  \/ flushEffects
  \/ \E call \in calls : loadImageFulfils(call)
  \/ \E call \in calls : loadImageRejects(call)
  \/ \E init \in 1..Len(landmarkerInits) : \E fulfilled \in BOOLEAN :
        initializerSettles(init, fulfilled)
  \/ \E call \in calls : \E detection \in Detections : landmarkerSettles(call, detection)

SpecDetect == Init /\ [][NextDetect]_vars

\* ------------------------------------------- readings of earlier sessions
\* lengths of the list found in localStorage when the application starts
StoredLengths == {0, 1, 24, 25}

\* the reading saved i sessions ago: pupils 260 px apart on a card 400 px wide
StoredReading(i) ==
  [sourceCapturedAt |-> -i,
   pdMm |-> 111,
   markers |-> << Entry("leftPupil", << 400, 480 >>), Entry("rightPupil", << 660, 480 >>),
                  Entry("leftCard", << 300, 200 >>), Entry("rightCard", << 700, 200 >>) >>]

\* useState(() => loadReadings()) and useState(history[0] ?? null)
InitStored ==
  /\ step = "instructions"
  /\ photo = NoPhoto
  /\ markers = NoMarkers
  /\ autoState = "idle"
  /\ autoMessage = ""
  /\ size = NoSize
  /\ activeMarker = NoKey
  /\ markersRef = NoMarkers
  /\ pointerCapture = FALSE
  /\ lastDownMissed = FALSE
  /\ calls = {}
  /\ nextCallId = 0
  /\ autoRuns = 0
  /\ lastResolved = 0
  /\ effectsPending = FALSE
  /\ nMoves = 0
  /\ savingError = NoError
  /\ \E length \in StoredLengths : storage = [i \in 1..length |-> StoredReading(i)]
  /\ history = storage
  /\ latestReading = IF Len(history) > 0 THEN history[1] ELSE NoReading
  /\ camera = NoCamera
  /\ InitOutsideApp

NextStored ==
  \/ startFlow
  \/ \E dims \in PhotoDims : handleCapture(dims)
  \/ \E call \in calls : \E result \in AutoSuggestResults(call.photo) :
        resolveAutoDetect(call, result)
  \/ flushEffects
  \/ viewSavedReadings
  \/ \E writeOk \in BOOLEAN : saveCurrentReading(writeOk)
  \/ \E removeOk \in BOOLEAN : clearHistory(removeOk)

SpecStored == InitStored /\ [][NextStored]_vars

\* --------------------------------------------------------------- the camera
InitCamera ==
  /\ step = "instructions"
  /\ photo = NoPhoto
  /\ markers = NoMarkers
  /\ autoState = "idle"
  /\ autoMessage = ""
  /\ size = NoSize
  /\ activeMarker = NoKey
  /\ markersRef = NoMarkers
  /\ pointerCapture = FALSE
  /\ lastDownMissed = FALSE
  /\ calls = {}
  /\ nextCallId = 0
  /\ autoRuns = 0
  /\ lastResolved = 0
  /\ effectsPending = FALSE
  /\ nMoves = 0
  /\ savingError = NoError
  /\ storage = << >>
  /\ history = storage
  /\ latestReading = NoReading
  /\ camera = IdleCamera
  /\ InitOutsideApp

\* "Enable camera" / "Restart camera"
onStart ==
  /\ step = "camera"
  /\ camera # NoCamera
  /\ camera.started < MaxStarts
  /\ CommitSync([Pre EXCEPT !.camera = startCamera(@, TRUE)])
  /\ UNCHANGED << nMoves, outsideApp >>

\* getUserMedia fulfils for a call of startCamera: the stream goes to
\* streamRef and, with a video, the call awaits video.play(); without one it
\* sets the status
getUserMediaFulfils(call) ==
  /\ camera # NoCamera
  /\ call \in camera.calls
  /\ call.at = "getUserMedia"
  /\ IF step = "camera"
       THEN /\ camera' = afterGetUserMedia(camera, call, TRUE)
            /\ UNCHANGED << appVars, outsideApp >>
       ELSE /\ CommitDeferred([Pre EXCEPT !.camera = afterGetUserMedia(@, call, FALSE)])
            /\ UNCHANGED << nMoves, outsideApp >>

\* getUserMedia rejects: caught, the status becomes error
getUserMediaRejects(call) ==
  /\ camera # NoCamera
  /\ call \in camera.calls
  /\ call.at = "getUserMedia"
  /\ CommitDeferred([Pre EXCEPT !.camera = [@ EXCEPT !.status = "error", !.calls = @ \ {call}]])
  /\ UNCHANGED << nMoves, outsideApp >>

\* video.play() settles
playSettles(call, fulfilled) ==
  /\ camera # NoCamera
  /\ call \in camera.calls
  /\ call.at = "play"
  /\ CommitDeferred([Pre EXCEPT !.camera =
                       [@ EXCEPT !.status = IF fulfilled THEN "ready" ELSE "error",
                                 !.calls = @ \ {call}]])
  /\ UNCHANGED << nMoves, outsideApp >>

NextCamera ==
  \/ startFlow
  \/ onCancel
  \/ onStart
  \/ \E dims \in PhotoDims : handleCapture(dims)
  \/ retakePhoto
  \/ flushEffects
  \/ \E call \in camera.calls : getUserMediaFulfils(call)
  \/ \E call \in camera.calls : getUserMediaRejects(call)
  \/ \E call \in camera.calls : \E fulfilled \in BOOLEAN : playSettles(call, fulfilled)

SpecCamera == InitCamera /\ [][NextCamera]_vars

\* =============================================================== claims
\* C1: a pointer-move while a marker is active changes only the active
\* marker's point in the store; the other three keep the values the store
\* held immediately before the move, also when a merge has just written them.
C1_MoveWritesOnlyActiveMarker ==
  [][\A pointer \in PointerPositions :
        handlePointerMove(pointer) =>
          \A key \in MarkerKey \ {activeMarker} : Get(markers', key) = Get(markers, key)]_vars

\* C2: a successful detection is merged per key: the store afterwards has the
\* same four keys, the suggested point on every key the suggestions supply and
\* the previous point on every other key.
C2_MergeIsPerKeyOverwrite ==
  [][\A call \in calls : \A result \in AutoSuggestResults(call.photo) :
        (resolveAutoDetect(call, result) /\ result.status = "success" /\ markers # NoMarkers) =>
          /\ {markers'[i].key : i \in 1..Len(markers')} = MarkerKey
          /\ Len(markers') = Len(markers)
          /\ \A key \in MarkerKey :
               Get(markers', key) = IF HasKey(result.suggestions, key)
                                      THEN Get(result.suggestions, key)
                                      ELSE Get(markers, key)]_vars

\* a marker was dragged, then the detection of the wide face was merged
C2_Witness ==
  /\ autoState = "success"
  /\ lastResolved = 1
  /\ nMoves >= 1
  /\ markers = FullSuggestions(photo)

\* C3: the status follows idle -> loading -> {success, no-face, error}: a
\* terminal status is entered only from loading, and loading is entered only
\* from idle or, by a manual re-run, from a terminal status.
C3_StatusStateMachine ==
  [][/\ (autoState' \in Terminal /\ autoState' # autoState) => autoState = "loading"
     /\ (autoState' = "loading" /\ autoState # "loading") =>
          \/ autoState = "idle"
          \/ autoState \in Terminal /\ rerunAutoDetect]_vars

\* C4: the automatic idle -> loading transition fires exactly once per
\* captured photo; no drag and no merge starts another automatic call.
C4_AutoDetectOncePerPhoto ==
  /\ autoRuns <= 1
  /\ photo # NoPhoto => autoRuns = 1

C4_Witness ==
  /\ photo # NoPhoto
  /\ autoRuns = 1
  /\ nMoves >= 1
  /\ autoState = "success"
  /\ ~effectsPending
  /\ markers # createDefaultMarkers(photo.width, photo.height)

\* C5: a detection that resolves with no-face or error leaves the marker
\* store as it is and only sets the status and the message.
C5_FailureLeavesMarkers ==
  [][\A call \in calls : \A result \in AutoSuggestResults(call.photo) :
        (resolveAutoDetect(call, result) /\ result.status \in {"no-face", "error"}) =>
          /\ markers' = markers
          /\ autoState' = result.status
          /\ autoMessage' = result.message
          /\ UNCHANGED << step, photo, size, activeMarker >>]_vars

C5_Witness ==
  /\ autoState = "no-face"
  /\ autoMessage = MSG_NO_FACE
  /\ lastResolved >= 1
  /\ photo # NoPhoto
  /\ markers = createDefaultMarkers(photo.width, photo.height)

\* C6: detection calls are never cancelled: a call leaves the set of calls in
\* flight only by resolving, and a success of a call that is not the one
\* started last is still merged into the marker set of its resolution time,
\* so the suggested keys hold the values of the call that resolved last.
C6_NoCancellation ==
  [][/\ \A call \in calls \ calls' :
          \E result \in AutoSuggestResults(call.photo) : resolveAutoDetect(call, result)
     /\ \A call \in calls : \A result \in AutoSuggestResults(call.photo) :
          (/\ resolveAutoDetect(call, result)
           /\ result.status = "success"
           /\ markers # NoMarkers
           /\ call.id < nextCallId) =>
             /\ lastResolved' = call.id
             /\ \A i \in 1..Len(result.suggestions) :
                  Get(markers', result.suggestions[i].key) = result.suggestions[i].pt]_vars

\* both calls resolved, the call started first resolved last (the face at the
\* upper edge) and its suggestions are the ones in the store
C6_Witness ==
  /\ nextCallId = 2
  /\ calls = {}
  /\ lastResolved = 1
  /\ autoState = "success"
  /\ markers = TopFaceSuggestions(photo)

\* C7: once the pointer is released or its capture is lost, no marker is
\* active any more.
C7_NoActiveMarkerAfterRelease ==
  ~pointerCapture => activeMarker = NoKey

\* C8: a pointer-down selects a marker at minimal distance from the
\* image-space pointer point and strictly within the pick radius; if none is
\* within the radius no drag starts, the store is unchanged, and pointer-moves
\* change nothing until a pointer-down hits a marker.
C8_HitTestAndMiss ==
  [][/\ \A pointer \in PointerPositions :
          handlePointerDown(pointer) =>
            LET hitPoint == getImagePointFromEvent(pointer, size, photo)
            IN IF lastDownMissed'
                 THEN /\ \A key \in MarkerKey :
                           distanceSq(hitPoint, Get(markersRef, key)) >= PICK_RADIUS * PICK_RADIUS
                      /\ markers' = markers
                      /\ activeMarker' = activeMarker
                 ELSE /\ distanceSq(hitPoint, Get(markersRef, activeMarker')) < PICK_RADIUS * PICK_RADIUS
                      /\ \A key \in MarkerKey :
                           distanceSq(hitPoint, Get(markersRef, activeMarker'))
                             <= distanceSq(hitPoint, Get(markersRef, key))
     /\ lastDownMissed =>
          \A pointer \in PointerPositions : handlePointerMove(pointer) => markers' = markers]_vars

\* C9: the key order of the marker set is always leftPupil, rightPupil,
\* leftCard, rightCard, and a pointer-down that hits selects the first key in
\* that order among the markers at minimal distance.
C9_TieBreakFirstInKeyOrder ==
  [][/\ markers' # NoMarkers => ObjectKeys(markers') = KeyOrder
     /\ markersRef' # NoMarkers => ObjectKeys(markersRef') = KeyOrder
     /\ \A pointer \in PointerPositions :
          (handlePointerDown(pointer) /\ ~lastDownMissed') =>
            LET hitPoint == getImagePointFromEvent(pointer, size, photo)
                d(key) == distanceSq(hitPoint, Get(markersRef, key))
                best == {i \in 1..4 : \A j \in 1..4 : d(KeyOrder[i]) <= d(KeyOrder[j])}
            IN activeMarker' = KeyOrder[CHOOSE i \in best : \A j \in best : i <= j]]_vars

\* after a drag and a merge, a pointer-down equidistant from both pupils
\* selected the left pupil
C9_Witness ==
  /\ activeMarker = "leftPupil"
  /\ pointerCapture
  /\ ~lastDownMissed
  /\ nMoves >= 1
  /\ autoState = "success"
  /\ \E pointer \in PointerPositions :
       LET hitPoint == getImagePointFromEvent(pointer, size, photo)
       IN /\ distanceSq(hitPoint, Get(markersRef, "leftPupil"))
               = distanceSq(hitPoint, Get(markersRef, "rightPupil"))
          /\ distanceSq(hitPoint, Get(markersRef, "leftPupil")) < PICK_RADIUS * PICK_RADIUS

\* C10: the point a pointer-move writes lies within the photo, for every
\* pointer position and every display size.
C10_DraggedPointInPhoto ==
  [][\A pointer \in PointerPositions :
        handlePointerMove(pointer) =>
          LET point == Get(markers', activeMarker)
          IN /\ 0 <= point[1] /\ point[1] <= photo.width
             /\ 0 <= point[2] /\ point[2] <= photo.height]_vars

\* a move at display size 0 with the pointer above the canvas
C10_Witness ==
  /\ markers # NoMarkers
  /\ size = NoSize
  /\ nMoves >= 1
  /\ \E key \in MarkerKey : Get(markers, key) = << photo.width, 0 >>

C12_MarkerStoreLifecycle ==
  /\ markers # NoMarkers =>
       /\ Len(markers) = 4
       /\ {markers[i].key : i \in 1..Len(markers)} = MarkerKey
       /\ \A i \in 1..Len(markers) : markers[i].pt \in Int \X Int
  /\ (markers # NoMarkers) <=> (photo # NoPhoto)
  /\ (measurement # NoMeasurement) <=> (markers # NoMarkers)
  /\ markers # NoMarkers => measurement = calculatePd(markers)

\* a store changed by a merge and then by a drag of the left card corner
C12_Witness ==
  /\ step = "annotate"
  /\ autoState = "success"
  /\ nMoves = 1
  /\ ~effectsPending
  /\ Get(markers, "leftCard") = << 20, 0 >>
  /\ Get(markers, "leftPupil") = Get(FullSuggestions(photo), "leftPupil")
  /\ measurement = calculatePd(markers)

\* C13: after a retake and after a new-capture request the marker store is
\* absent, and it stays absent until the next photo is captured.
C13_AbsentAfterRetakeOrNewCapture ==
  [][/\ (retakePhoto \/ (step = "result" /\ startFlow)) => markers' = NoMarkers
     /\ (markers = NoMarkers /\ markers' # NoMarkers) =>
          \E dims \in PhotoDims : handleCapture(dims)]_vars

\* C14: every photo capture sets the marker store to the default layout for
\* the photo's width and height, whatever it held before: pupils at 40% and
\* 60% of the width and 48% of the height, card corners at 30% and 70% of the
\* width and 20% of the height.
C14_CaptureSetsDefaultLayout ==
  [][\A dims \in PhotoDims :
        handleCapture(dims) =>
          /\ photo'.width = dims[1] /\ photo'.height = dims[2]
          /\ ObjectKeys(markers') = KeyOrder
          /\ \A key \in MarkerKey :
               LET point == Get(markers', key)
                   percent == [leftPupil |-> << 40, 48 >>, rightPupil |-> << 60, 48 >>,
                               leftCard |-> << 30, 20 >>, rightCard |-> << 70, 20 >>]
               IN /\ 100 * point[1] = percent[key][1] * dims[1]
                  /\ 100 * point[2] = percent[key][2] * dims[2]]_vars

\* the second photo was captured while the saved reading's markers were
\* still in the store, and the store holds the default layout
C14_Witness ==
  /\ step = "annotate"
  /\ photo.id = 2
  /\ latestReading # NoReading
  /\ latestReading.sourceCapturedAt = 1
  /\ markers = createDefaultMarkers(photo.width, photo.height)
  /\ markers # latestReading.markers

\* C15: when the two card markers coincide, calculatePd returns mmPerPixel
\* 0 and pdMm 0 with the out-of-range issue, is not valid, and every field of
\* the result has a defined value.
C15_ZeroCardWidth ==
  (markers # NoMarkers /\ Get(markers, "leftCard") = Get(markers, "rightCard")) =>
    /\ measurement.cardPixelWidth = 0
    /\ measurement.mmPerPixel[1] = 0 /\ measurement.mmPerPixel[2] > 0
    /\ measurement.pdMm[1] = 0 /\ measurement.pdMm[2] > 0
    /\ measurement.pdMmRoundedHalves = 0
    /\ \E i \in 1..Len(measurement.issues) : measurement.issues[i] = ISSUE_RANGE
    /\ ~measurement.valid
    /\ measurement.confidence[2] > 0
    /\ measurement.qualityMessage \in {QUALITY_LOW, QUALITY_MODERATE, QUALITY_GOOD}

\* a save was requested with coinciding card markers and was refused
C15_Witness ==
  /\ markers # NoMarkers
  /\ Get(markers, "leftCard") = Get(markers, "rightCard")
  /\ Get(markers, "leftPupil") # Get(markers, "rightPupil")
  /\ savingError = MSG_FIX_ISSUES
  /\ step = "annotate"

\* C16: the card-too-close issue is present iff cardPixelWidth < 90, the
\* out-of-range issue iff pdMm < 45 or pdMm > 80, the tilt issue iff the tilt
\* ratio > 0.2; the issues appear in that order, and valid iff there is none.
C16_IndependentValidations ==
  markers # NoMarkers =>
    LET m == measurement
        dy == Abs(Get(markers, "leftCard")[2] - Get(markers, "rightCard")[2])
        tooClose == m.cardPixelWidth < 90
        outOfRange == m.pdMm[1] < 45 * m.pdMm[2] \/ m.pdMm[1] > 80 * m.pdMm[2]
        tilted == 5 * dy > (IF m.cardPixelWidth > 1 THEN m.cardPixelWidth ELSE 1)
        keep(issue) == \/ issue = ISSUE_CARD /\ tooClose
                       \/ issue = ISSUE_RANGE /\ outOfRange
                       \/ issue = ISSUE_TILT /\ tilted
    IN /\ m.issues = SelectSeq(<< ISSUE_CARD, ISSUE_RANGE, ISSUE_TILT >>, keep)
       /\ m.valid <=> (Len(m.issues) = 0)

\* all three issues together, on a refused save
C16_Witness ==
  /\ markers # NoMarkers
  /\ measurement.issues = << ISSUE_CARD, ISSUE_RANGE, ISSUE_TILT >>
  /\ savingError = MSG_FIX_ISSUES

\* C17: confidence = clamp(0.35 + 0.45 * scaleConfidence + 0.20 * tiltConfidence
\* - (0.3 if the PD is outside 45..80), 0, 1), with scaleConfidence =
\* clamp((cardPixelWidth - 90) / 220, 0, 1) and tiltConfidence =
\* 1 - clamp(tiltRatio / 0.2, 0, 1); so it is within [0, 1].
C17_ConfidenceFormula ==
  markers # NoMarkers =>
    LET m == measurement
        width == IF m.cardPixelWidth > 1 THEN m.cardPixelWidth ELSE 1
        dy == Abs(Get(markers, "leftCard")[2] - Get(markers, "rightCard")[2])
        \* scaleConfidence * 220 and (1 - tiltConfidence) * width
        s == IF m.cardPixelWidth < 90 THEN 0
             ELSE IF m.cardPixelWidth > 310 THEN 220 ELSE m.cardPixelWidth - 90
        u == IF 5 * dy > width THEN width ELSE 5 * dy
        penalty == IF m.pdMm[1] < 45 * m.pdMm[2] \/ m.pdMm[1] > 80 * m.pdMm[2] THEN 30 ELSE 0
        \* the sum, times 100 * 220 * width
        sum == (35 - penalty) * 220 * width + 45 * s * width + 20 * 220 * (width - u)
        den == 100 * 220 * width
    IN /\ m.confidence[2] = den
       /\ m.confidence[1] = (IF sum < 0 THEN 0 ELSE IF sum > den THEN den ELSE sum)
       /\ 0 <= m.confidence[1] /\ m.confidence[1] <= m.confidence[2]

\* card 400 wide and level, pupils 200 apart: 1.0 less the penalty, 0.7
C17_Witness ==
  /\ markers # NoMarkers
  /\ measurement.cardPixelWidth = 400
  /\ measurement.pupilPixelDistance = 200
  /\ 10 * measurement.confidence[1] = 7 * measurement.confidence[2]
  /\ savingError = MSG_FIX_ISSUES

\* C18: the quality message is "good" iff confidence >= 0.75 and there are no
\* issues, otherwise "moderate" iff confidence >= 0.5, otherwise "low"; "good"
\* implies valid.
C18_QualityMessage ==
  markers # NoMarkers =>
    LET m == measurement
        atLeast075 == 4 * m.confidence[1] >= 3 * m.confidence[2]
        atLeast05 == 2 * m.confidence[1] >= m.confidence[2]
    IN /\ m.qualityMessage = QUALITY_GOOD <=> (atLeast075 /\ Len(m.issues) = 0)
       /\ m.qualityMessage = QUALITY_MODERATE <=>
            (~(atLeast075 /\ Len(m.issues) = 0) /\ atLeast05)
       /\ m.qualityMessage = QUALITY_LOW <=> ~atLeast05
       /\ m.qualityMessage = QUALITY_GOOD => m.valid

\* a valid measurement that was saved with the "moderate" message
C18_Witness ==
  /\ step = "result"
  /\ latestReading # NoReading
  /\ measurement.valid
  /\ measurement.qualityMessage = QUALITY_MODERATE

\* C19: with cardPixelWidth > 0, pdMm = pupilPixelDistance * 85.6 /
\* cardPixelWidth and pdMmRounded is the multiple of 0.5 nearest to pdMm; card
\* (300,200)-(700,200) with pupils (400,480)-(600,480) gives mmPerPixel 0.214,
\* pdMm 42.8, pdMmRounded 43.0, the out-of-range issue and valid = false.
C19_PdAndRounding ==
  markers # NoMarkers =>
    LET m == measurement
        example == << Entry("leftPupil", << 400, 480 >>), Entry("rightPupil", << 600, 480 >>),
                      Entry("leftCard", << 300, 200 >>), Entry("rightCard", << 700, 200 >>) >>
    IN /\ m.cardPixelWidth > 0 =>
            /\ m.pdMm[1] * 10 * m.cardPixelWidth = m.pupilPixelDistance * 856 * m.pdMm[2]
            /\ (2 * m.pdMmRoundedHalves - 1) * m.pdMm[2] <= 4 * m.pdMm[1]
            /\ 4 * m.pdMm[1] < (2 * m.pdMmRoundedHalves + 1) * m.pdMm[2]
       /\ markers = example =>
            /\ 1000 * m.mmPerPixel[1] = 214 * m.mmPerPixel[2]
            /\ 10 * m.pdMm[1] = 428 * m.pdMm[2]
            /\ m.pdMmRoundedHalves = 86
            /\ m.issues = << ISSUE_RANGE >>
            /\ ~m.valid

\* the example of the claim, on a refused save
C19_Witness ==
  /\ markers = << Entry("leftPupil", << 400, 480 >>), Entry("rightPupil", << 600, 480 >>),
                  Entry("leftCard", << 300, 200 >>), Entry("rightCard", << 700, 200 >>) >>
  /\ measurement.pdMmRoundedHalves = 86
  /\ savingError = MSG_FIX_ISSUES

\* C20: with card markers (300,200)-(700,200) and pupils 260 px apart on a
\* horizontal line, the measurement is valid and its confidence is within
\* [0.75, 1].
C20_ValidExample ==
  (/\ markers # NoMarkers
   /\ Get(markers, "leftCard") = << 300, 200 >>
   /\ Get(markers, "rightCard") = << 700, 200 >>
   /\ Get(markers, "leftPupil")[2] = Get(markers, "rightPupil")[2]
   /\ Abs(Get(markers, "leftPupil")[1] - Get(markers, "rightPupil")[1]) = 260) =>
     /\ measurement.valid
     /\ 4 * measurement.confidence[1] >= 3 * measurement.confidence[2]
     /\ measurement.confidence[1] <= measurement.confidence[2]

\* that measurement was saved: 55.64 mm, stored as 55.5
C20_Witness ==
  /\ step = "result"
  /\ Get(markers, "leftCard") = << 300, 200 >>
  /\ Get(markers, "rightCard") = << 700, 200 >>
  /\ Get(markers, "leftPupil") = << 400, 480 >>
  /\ Get(markers, "rightPupil") = << 660, 480 >>
  /\ latestReading # NoReading
  /\ latestReading.pdMm = 111

\* C21: the tilt issue is raised exactly when abs(leftCard.y - rightCard.y) /
\* max(cardPixelWidth, 1) > 0.2, strictly: card (300,200)-(700,280) raises no
\* tilt issue, card (300,200)-(700,300) raises it, and a ratio of exactly 0.2
\* (a width of five times the vertical difference) does not.
C21_TiltThreshold ==
  markers # NoMarkers =>
    LET leftCard == Get(markers, "leftCard")
        rightCard == Get(markers, "rightCard")
        dy == Abs(leftCard[2] - rightCard[2])
        widthSq == distanceSq(leftCard, rightCard)
        raised == \E i \in 1..Len(measurement.issues) : measurement.issues[i] = ISSUE_TILT
    IN /\ raised <=> 25 * dy * dy > (IF widthSq > 1 THEN widthSq ELSE 1)
       /\ (leftCard = << 300, 200 >> /\ rightCard = << 700, 280 >>) => ~raised
       /\ (leftCard = << 300, 200 >> /\ rightCard = << 700, 300 >>) => raised
       /\ \A d \in 0..photo.height : ~Tilted(d, 5 * d)

\* the card (300,200)-(700,300) keeps an otherwise valid measurement from
\* being saved
C21_Witness ==
  /\ markers # NoMarkers
  /\ Get(markers, "leftCard") = << 300, 200 >>
  /\ Get(markers, "rightCard") = << 700, 300 >>
  /\ measurement.issues = << ISSUE_TILT >>
  /\ savingError = MSG_FIX_ISSUES

\* C22: for every value x, round(x * 2) / 2 is the multiple of 0.5 nearest to
\* x, an exact tie going to the higher multiple, and rounding is idempotent:
\* applied to an already rounded value it returns the same value.
C22_RoundingLaw ==
  /\ Len(roundResults) >= 1 =>
       LET h == roundResults[1]
           \* | x - k / 2 |, times twice the denominator of x
           off(k) == Abs(2 * roundArg[1] - k * roundArg[2])
       IN \A k \in 0..(2 * MaxRoundNum + 1) :
            k # h => \/ off(h) < off(k)
                     \/ off(h) = off(k) /\ h > k
  /\ Len(roundResults) >= 2 => roundResults[2] = roundResults[1]

\* 45.25 lies midway between 45.0 and 45.5: rounded to 45.5, and again to 45.5
C22_Witness ==
  /\ roundArg = << 181, 4 >>
  /\ roundResults = << 91, 91 >>

\* C23: the landmark detector is constructed at most once per process: however
\* many detection calls there are, overlapping or not, at most one
\* initialization is ever started, so at most one construction, and every
\* call awaits the promise of that one initialization.
C23_DetectorConstructedOnce ==
  /\ Len(landmarkerInits) <= 1
  /\ Cardinality({init \in 1..Len(landmarkerInits) :
                    landmarkerInits[init] \in {"create", "fulfilled"}}) <= 1
  /\ faceLandmarkerPromise = Len(landmarkerInits)
  /\ \A id \in DOMAIN awaitedLandmarker : awaitedLandmarker[id] = 1

\* two calls await the detector while its construction is in progress
C23_Witness ==
  /\ Cardinality({call \in calls : call.id \in DOMAIN awaitedLandmarker}) = 2
  /\ landmarkerInits = << "create" >>

\* C24: every auto-suggest call resolves, never rejects, with a status in
\* {success, no-face, error}: a failure of image loading, of the detector's
\* initialization or of the detection yields error; the suggestions are empty
\* unless the status is success, and a success holds both leftPupil and
\* rightPupil.
C24_AlwaysResolvesWithStatus ==
  [][\A call \in calls :
       LET width == call.photo.width
           height == call.photo.height
           awaited == awaitedLandmarker[call.id]
       IN /\ \A loaded \in BOOLEAN, landmarker \in BOOLEAN, detection \in Detections :
               LET result == autoSuggestMarkers(loaded, landmarker, detection, width, height)
               IN /\ result.status \in {"success", "no-face", "error"}
                  /\ (~loaded \/ ~landmarker \/ detection.throws) => result.status = "error"
                  /\ result.status # "success" => result.suggestions = << >>
                  /\ result.status = "success" =>
                       /\ HasKey(result.suggestions, "leftPupil")
                       /\ HasKey(result.suggestions, "rightPupil")
          /\ call \notin calls' =>
               \E loaded \in BOOLEAN, landmarker \in BOOLEAN, detection \in Detections :
                 LET result == autoSuggestMarkers(loaded, landmarker, detection, width, height)
                 IN autoState' = result.status /\ autoMessage' = result.message
          /\ loadImageRejects(call) =>
               autoState' = "error" /\ autoMessage' = MSG_ERROR /\ markers' = markers
          /\ \A detection \in Detections :
               (/\ landmarkerSettles(call, detection)
                /\ landmarkerInits[awaited] = "rejected" \/ detection.throws) =>
                  autoState' = "error" /\ autoMessage' = MSG_ERROR /\ markers' = markers]_vars

\* the initialization of the detector failed and the call that awaited it
\* resolved with error, the store keeping the default markers
C24_Witness ==
  /\ landmarkerInits = << "rejected" >>
  /\ calls = {}
  /\ lastResolved = 1
  /\ autoState = "error"
  /\ autoMessage = MSG_ERROR
  /\ photo # NoPhoto
  /\ markers = createDefaultMarkers(photo.width, photo.height)

\* C25: in every state with a photo and markers, all four markers lie within
\* the photo's bounds [0, width] x [0, height], after any sequence of
\* capture, merge of suggestions (heuristic card corners included) and drag.
C25_MarkersWithinPhoto ==
  (photo # NoPhoto /\ markers # NoMarkers) =>
    \A i \in 1..Len(markers) :
      /\ 0 <= markers[i].pt[1] /\ markers[i].pt[1] <= photo.width
      /\ 0 <= markers[i].pt[2] /\ markers[i].pt[2] <= photo.height

\* C26: results that are merged into the store or written to the status were
\* computed from the photo currently held: a detection started for an earlier
\* photo that resolves after a retake and a new capture changes neither the
\* new photo's markers nor its status.
C26_ResultsBelongToCurrentPhoto ==
  [][\A call \in calls : \A result \in AutoSuggestResults(call.photo) :
       (resolveAutoDetect(call, result) /\ photo # NoPhoto /\ call.photo.id # photo.id) =>
          /\ markers' = markers
          /\ autoState' = autoState
          /\ autoMessage' = autoMessage]_vars

\* C27: saving is blocked for invalid measurements: a save request with a
\* measurement that has issues leaves the history, the stored list, the latest
\* reading and the step unchanged and sets the saving error; a reading enters
\* the history only when the measurement of the current markers is valid, and
\* it is the reading of those markers.
C27_SaveBlockedWhenInvalid ==
  [][\A writeOk \in BOOLEAN :
       saveCurrentReading(writeOk) =>
         /\ Len(calculatePd(markers).issues) > 0 =>
              /\ history' = history
              /\ storage' = storage
              /\ latestReading' = latestReading
              /\ step' = step
              /\ savingError' = MSG_FIX_ISSUES
         /\ history' # history =>
              /\ Len(calculatePd(markers).issues) = 0
              /\ calculatePd(markers).valid
              /\ history'[1].markers = markers
              /\ history'[1].pdMm = calculatePd(markers).pdMmRoundedHalves
              /\ savingError' = NoError]_vars

\* a tilted card: the save was refused and nothing was stored
C27_Witness ==
  /\ step = "annotate"
  /\ markers # NoMarkers
  /\ measurement.issues = << ISSUE_RANGE, ISSUE_TILT >>
  /\ savingError = MSG_FIX_ISSUES
  /\ history = << >>
  /\ storage = << >>
  /\ latestReading = NoReading

\* C28: after any sequence of saves and clears the history and the stored
\* list hold at most 25 readings, newest first; a save whose write succeeds
\* puts the new reading at the head of the stored list and drops the oldest
\* beyond 25; clear empties the history, and the stored list when the removal
\* succeeds.
C28_HistoryCappedNewestFirst ==
  /\ [](/\ Len(history) <= 25
        /\ Len(storage) <= 25
        /\ \A i \in 1..Len(history) : \A j \in i..Len(history) :
             history[i].sourceCapturedAt >= history[j].sourceCapturedAt)
  /\ [][/\ \A writeOk \in BOOLEAN :
             (saveCurrentReading(writeOk) /\ writeOk /\ step' = "result") =>
               /\ history'[1] = [sourceCapturedAt |-> photo.id,
                                 pdMm |-> calculatePd(markers).pdMmRoundedHalves,
                                 markers |-> markers]
               /\ Len(history') = (IF Len(storage) < 25 THEN Len(storage) + 1 ELSE 25)
               /\ \A i \in 2..Len(history') : history'[i] = storage[i - 1]
               /\ storage' = history'
        /\ \A removeOk \in BOOLEAN :
             clearHistory(removeOk) =>
               /\ history' = << >>
               /\ removeOk => storage' = << >>]_vars

\* two readings were saved on top of 24 or 25 stored ones: they are the first
\* two, newest first, and the oldest stored ones are gone
C28_Witness ==
  /\ step = "result"
  /\ photo # NoPhoto
  /\ Len(history) = 25
  /\ history[1].sourceCapturedAt = photo.id
  /\ history[2].sourceCapturedAt = photo.id - 1
  /\ history[3] = StoredReading(1)
  /\ history[25] = StoredReading(23)
  /\ storage = history

\* C29: the latest saved reading is the head of the history: after every save
\* request, one whose storage write fails included, latestReading is absent
\* or equal to history[0].
C29_LatestReadingIsHistoryHead ==
  \/ latestReading = NoReading
  \/ Len(history) > 0 /\ latestReading = history[1]

\* C30: after stopCamera (capture, Back) the status is idle and no acquired
\* stream keeps running until startCamera is called again, also when a call
\* of startCamera was awaiting the camera at the time of the stop; and at no
\* time does more than one acquired stream run.
C30_CameraCleanup ==
  /\ [](Cardinality(camera.live) <= 1)
  /\ [][/\ (onCancel \/ \E dims \in PhotoDims : handleCapture(dims)) =>
             camera'.status = "idle" /\ camera'.live = {}
        /\ (camera.status = "idle" /\ camera.live = {} /\ camera'.started = camera.started) =>
             camera'.status = "idle" /\ camera'.live = {}]_vars

\* C31: once the shared initialization of the detector has failed, the failed
\* promise stays cached: no step starts a new initialization or replaces the
\* promise, every call that reaches getFaceLandmarker awaits the failed
\* promise, and every auto-suggest call that resolves from then on (automatic
\* or manual re-run, for any photo) resolves with status error.
C31_FailedInitIsCached ==
  [][(landmarkerInits # << >> /\ landmarkerInits[1] = "rejected") =>
       /\ landmarkerInits' = landmarkerInits
       /\ faceLandmarkerPromise' = 1
       /\ \A id \in DOMAIN awaitedLandmarker' : awaitedLandmarker'[id] = 1
       /\ \A call \in calls :
            call \notin calls' => autoState' = "error" /\ autoMessage' = MSG_ERROR]_vars

\* the initialization failed, and both the automatic call and the manual
\* re-run awaited the failed promise and resolved with error
C31_Witness ==
  /\ landmarkerInits = << "rejected" >>
  /\ faceLandmarkerPromise = 1
  /\ DOMAIN awaitedLandmarker = {1, 2}
  /\ calls = {}
  /\ lastResolved = 2
  /\ autoRuns = 1
  /\ autoState = "error"
  /\ autoMessage = MSG_ERROR

\* C32: when the detector is ready and detect returns, each eye's suggested
\* pupil is the average, scaled to pixels, of that eye's available iris
\* landmarks, or of its available eye-corner landmarks when no iris landmark
\* of that eye is available; when no face is detected or an eye has no
\* landmark in either set, the call resolves with no-face and empty
\* suggestions, and the store keeps its markers.
C32_PupilFallback ==
  [][\A call \in calls, detection \in Detections :
       (/\ landmarkerSettles(call, detection)
        /\ landmarkerInits[awaitedLandmarker[call.id]] = "fulfilled"
        /\ ~detection.throws) =>
         LET width == call.photo.width
             height == call.photo.height
             result == autoSuggestMarkers(TRUE, TRUE, detection, width, height)
             RECURSIVE Sum(_, _, _)
             Sum(landmarks, S, axis) ==
               IF S = {} THEN 0
               ELSE LET i == CHOOSE j \in S : TRUE
                    IN landmarks[i][axis] + Sum(landmarks, S \ {i}, axis)
             available(landmarks, indices) ==
               {indices[k] : k \in 1..Len(indices)} \cap DOMAIN landmarks
             source(landmarks, iris, corners) ==
               IF available(landmarks, iris) # {}
                 THEN available(landmarks, iris)
                 ELSE available(landmarks, corners)
             isAverage(p, landmarks, S) ==
               /\ 100 * Cardinality(S) * p[1] = width * Sum(landmarks, S, 1)
               /\ 100 * Cardinality(S) * p[2] = height * Sum(landmarks, S, 2)
             noFace == Len(detection.faceLandmarks) = 0
             face == detection.faceLandmarks[1]
             left == source(face, LEFT_IRIS_INDICES, LEFT_EYE_FALLBACK)
             right == source(face, RIGHT_IRIS_INDICES, RIGHT_EYE_FALLBACK)
         IN IF noFace \/ left = {} \/ right = {}
              THEN /\ result.status = "no-face"
                   /\ result.suggestions = << >>
                   /\ autoState' = "no-face"
                   /\ markers' = markers
              ELSE /\ result.status = "success"
                   /\ isAverage(Get(result.suggestions, "leftPupil"), face, left)
                   /\ isAverage(Get(result.suggestions, "rightPupil"), face, right)
                   /\ autoState' = "success"
                   /\ markers' # NoMarkers =>
                        /\ Get(markers', "leftPupil") = Get(result.suggestions, "leftPupil")
                        /\ Get(markers', "rightPupil") = Get(result.suggestions, "rightPupil")]_vars

\* a face without iris landmarks was detected on the 100 x 50 photo: the
\* pupils in the store are the averages of the eye corners, 18% and 82% of
\* the width
C32_Witness ==
  /\ photo # NoPhoto
  /\ photo.width = 100
  /\ lastResolved = 1
  /\ autoState = "success"
  /\ markers # NoMarkers
  /\ Get(markers, "leftPupil") = << 18, 23 >>
  /\ Get(markers, "rightPupil") = << 82, 23 >>

====
